---- MODULE Spec2Model ----
(***************************************************************************)
(* Model of the Verilator test-bench driver                                *)
(*   plugin/p2p/box_250mhz/filter_rx_pipeline/scripts/sim_main.cpp         *)
(*                                                                         *)
(* main() is a single linear procedure.  Every statement of main is one    *)
(* action; pc is the position of the procedure.  The simulation runtime    *)
(* (Verilated) and the generated model (Vfilter_rx_pipeline_tb) are        *)
(* external: what they do to the completion flag inside commandArgs, the   *)
(* constructor and eval is an unconstrained choice.                        *)
(***************************************************************************)
EXTENDS Integers, Naturals, FiniteSets, Sequences, TLC

VARIABLES
    pc,          \* position of main: the statement executed next
    i,           \* the loop counter `int i` (line 11)
    gotFinish,   \* Verilated::gotFinish(), the runtime's completion flag
    tb,          \* the pointer tb: "null" before new, "live", "freed" after delete
    argsDone,    \* Verilated::commandArgs has been called
    allocs,      \* number of `new Vfilter_rx_pipeline_tb` executed
    deallocs,    \* number of `delete tb` executed
    evalCalls,   \* number of tb->eval() calls made
    exitStatus,  \* {} until main returns, then {the value returned}
    firstRaise,  \* {} while the flag was never TRUE, else {when it first became
                 \* TRUE}: 0 = before the loop, k >= 1 = during the k-th eval call
    cleared,     \* the flag went from TRUE back to FALSE at some point
    preSet       \* value of the flag when the for statement was entered

vars == <<pc, i, gotFinish, tb, argsDone, allocs, deallocs, evalCalls,
          exitStatus, firstRaise, cleared, preSet>>

\* The iteration ceiling of the for loop (line 11).
Ceiling == 200000

Min(a, b) == IF a <= b THEN a ELSE b

\* History bookkeeping shared by the three calls into external code: g is the
\* value the call leaves in the flag, step the label recorded if this is the
\* first time the flag is raised.
Observe(g, step) ==
    /\ firstRaise' = IF firstRaise = {} /\ g THEN {step} ELSE firstRaise
    /\ cleared' = (cleared \/ (gotFinish /\ ~g))

\* Line 6: Verilated::commandArgs(argc, argv);
\* The runtime is external: it may leave the flag in either state.
CommandArgs ==
    /\ pc = "args"
    /\ argsDone' = TRUE
    /\ \E g \in BOOLEAN : gotFinish' = g /\ Observe(g, 0)
    /\ pc' = "new"
    /\ UNCHANGED <<i, tb, allocs, deallocs, evalCalls, exitStatus, preSet>>

\* Line 8: Vfilter_rx_pipeline_tb* tb = new Vfilter_rx_pipeline_tb;
\* The constructor is external: it may leave the flag in either state.
New ==
    /\ pc = "new"
    /\ tb' = "live"
    /\ allocs' = allocs + 1
    /\ \E g \in BOOLEAN : gotFinish' = g /\ Observe(g, 0)
    /\ pc' = "for"
    /\ UNCHANGED <<i, argsDone, deallocs, evalCalls, exitStatus, preSet>>

\* A loop that starts counting at 1.
ForInitFromOne ==
    /\ pc = "for"
    /\ i' = 1
    /\ preSet' = gotFinish
    /\ pc' = "test"
    /\ UNCHANGED <<gotFinish, tb, argsDone, allocs, deallocs, evalCalls,
                   exitStatus, firstRaise, cleared>>

\* Line 11, init-statement: int i = 0
ForInit ==
    /\ pc = "for"
    /\ i' = 0
    /\ preSet' = gotFinish
    /\ pc' = "test"
    /\ UNCHANGED <<gotFinish, tb, argsDone, allocs, deallocs, evalCalls,
                   exitStatus, firstRaise, cleared>>

\* Loop conditions with a slip: the flag not consulted, the ceiling one short.
LoopCondNoFlag == i < Ceiling
LoopCondShort == i < Ceiling - 1 /\ ~gotFinish

\* Line 11, condition: i < 200000 && !Verilated::gotFinish()
LoopCond == i < Ceiling /\ ~gotFinish

\* A do-while loop: the body runs once before the condition is first tested.
LoopTestDoWhile ==
    /\ pc = "test"
    /\ pc' = IF (i = 0 /\ evalCalls = 0) \/ LoopCond THEN "eval" ELSE "delete"
    /\ UNCHANGED <<i, gotFinish, tb, argsDone, allocs, deallocs, evalCalls,
                   exitStatus, firstRaise, cleared, preSet>>

\* A loop that stops calling eval when the condition fails but is never left.
LoopTestNoExit ==
    /\ pc = "test"
    /\ pc' = IF LoopCond THEN "eval" ELSE "test"
    /\ UNCHANGED <<i, gotFinish, tb, argsDone, allocs, deallocs, evalCalls,
                   exitStatus, firstRaise, cleared, preSet>>

\* Line 11: the condition is evaluated before every iteration; the loop is
\* left for line 15 as soon as it is false.
LoopTest ==
    /\ pc = "test"
    /\ pc' = IF LoopCond THEN "eval" ELSE "delete"
    /\ UNCHANGED <<i, gotFinish, tb, argsDone, allocs, deallocs, evalCalls,
                   exitStatus, firstRaise, cleared, preSet>>

\* Line 12: tb->eval();
\* The model is external: the step may leave the flag in either state.
Eval ==
    /\ pc = "eval"
    /\ evalCalls' = evalCalls + 1
    /\ \E g \in BOOLEAN : gotFinish' = g /\ Observe(g, evalCalls + 1)
    /\ pc' = "inc"
    /\ UNCHANGED <<i, tb, argsDone, allocs, deallocs, exitStatus, preSet>>

\* An increment that also releases the model (delete inside the loop body).
IncAndFree ==
    /\ pc = "inc"
    /\ i' = i + 1
    /\ tb' = "freed"
    /\ deallocs' = deallocs + 1
    /\ pc' = "test"
    /\ UNCHANGED <<gotFinish, argsDone, allocs, evalCalls,
                   exitStatus, firstRaise, cleared, preSet>>

\* An increment in which the driver itself raises the flag.
IncRaise ==
    /\ pc = "inc"
    /\ i' = i + 1
    /\ gotFinish' = TRUE
    /\ pc' = "test"
    /\ UNCHANGED <<tb, argsDone, allocs, deallocs, evalCalls,
                   exitStatus, firstRaise, cleared, preSet>>

\* Line 11, iteration expression: i++
Inc ==
    /\ pc = "inc"
    /\ i' = i + 1
    /\ pc' = "test"
    /\ UNCHANGED <<gotFinish, tb, argsDone, allocs, deallocs, evalCalls,
                   exitStatus, firstRaise, cleared, preSet>>

\* The delete statement left out: the model leaks.
DeleteLeak ==
    /\ pc = "delete"
    /\ pc' = "return"
    /\ UNCHANGED <<i, gotFinish, tb, argsDone, allocs, deallocs, evalCalls,
                   exitStatus, firstRaise, cleared, preSet>>

\* Line 15: delete tb;
\* The statement releases the model; nothing in it refers to the flag, which
\* belongs to the runtime and not to the model being released.
Delete ==
    /\ pc = "delete"
    /\ tb' = "freed"
    /\ deallocs' = deallocs + 1
    /\ pc' = "return"
    /\ UNCHANGED <<i, gotFinish, argsDone, allocs, evalCalls,
                   exitStatus, firstRaise, cleared, preSet>>

\* A return that reports how the loop ended.
ReturnByCause ==
    /\ pc = "return"
    /\ exitStatus' = {IF gotFinish THEN 0 ELSE 1}
    /\ pc' = "done"
    /\ UNCHANGED <<i, gotFinish, tb, argsDone, allocs, deallocs, evalCalls,
                   firstRaise, cleared, preSet>>

\* Line 16: return 0;
Return ==
    /\ pc = "return"
    /\ exitStatus' = {0}
    /\ pc' = "done"
    /\ UNCHANGED <<i, gotFinish, tb, argsDone, allocs, deallocs, evalCalls,
                   firstRaise, cleared, preSet>>

\* State on entry to main (line 5); the runtime's flag starts lowered.
Init ==
    /\ pc = "args"
    /\ i = 0
    /\ gotFinish = FALSE
    /\ tb = "null"
    /\ argsDone = FALSE
    /\ allocs = 0
    /\ deallocs = 0
    /\ evalCalls = 0
    /\ exitStatus = {}
    /\ firstRaise = {}
    /\ cleared = FALSE
    /\ preSet = FALSE

Next ==
    \/ CommandArgs
    \/ New
    \/ ForInit
    \/ LoopTest
    \/ Eval
    \/ Inc
    \/ Delete
    \/ Return

Spec == Init /\ [][Next]_vars

\* main is the only thread and every call is taken to return, so the
\* procedure always takes its next step.
FairSpec == Spec /\ WF_vars(Next)

Done == pc = "done"

\* The step at which the flag was first raised, for a state where it was.
RaisedAt == CHOOSE k \in firstRaise : TRUE

\* The flag was first raised by an eval call, and not before the loop.
RaisedInEval == firstRaise # {} /\ RaisedAt >= 1

(***************************************************************************)
(* C1: if the flag is first raised during eval step k, 1 <= k < 200000,    *)
(* the loop ends at that step: the number of eval calls is k and stays k   *)
(* (no eval call is pending or made after the raise), the model is never   *)
(* released more than once, and once main is done it was released exactly  *)
(* once.                                                                   *)
(***************************************************************************)
C1_EarlyCompletion ==
    (RaisedInEval /\ RaisedAt < Ceiling) =>
        /\ evalCalls = RaisedAt
        /\ pc # "eval"
        /\ deallocs <= 1
        /\ (Done => deallocs = 1)

C1_Witness ==
    /\ Done
    /\ firstRaise = {Ceiling - 1}
    /\ evalCalls = Ceiling - 1
    /\ deallocs = 1

(***************************************************************************)
(* C2: if the flag is never raised, main reaches the delete statement only *)
(* after exactly 200000 eval calls, and is done with exactly 200000 eval   *)
(* calls and the model released.                                           *)
(***************************************************************************)
C2_CeilingExact ==
    (firstRaise = {} /\ pc \in {"delete", "return", "done"}) =>
        /\ evalCalls = Ceiling
        /\ (Done => deallocs = 1)

C2_Witness ==
    /\ Done
    /\ firstRaise = {}
    /\ evalCalls = Ceiling
    /\ deallocs = 1

(***************************************************************************)
(* C3: the model is never released more often than it was allocated, never *)
(* allocated twice, and once main is done it was allocated exactly once    *)
(* and released exactly once, whichever way the loop ended.                *)
(***************************************************************************)
C3_AllocOnceFreeOnce ==
    /\ deallocs <= allocs
    /\ allocs <= 1
    /\ (Done => allocs = 1 /\ deallocs = 1)

C3_Witness ==
    /\ Done
    /\ RaisedInEval
    /\ evalCalls = 2
    /\ allocs = 1
    /\ deallocs = 1

(***************************************************************************)
(* C4: whenever main has returned its status is 0, on the ceiling path and *)
(* on the early-completion path alike; no other status is ever produced.   *)
(***************************************************************************)
C4_ExitZero ==
    /\ exitStatus \subseteq {0}
    /\ (Done => exitStatus = {0})

C4_Witness ==
    /\ Done
    /\ exitStatus = {0}
    /\ evalCalls = Ceiling
    /\ ~gotFinish

(***************************************************************************)
(* C5: the number of eval calls never exceeds 200000, and (every call      *)
(* returning) main eventually is done.                                     *)
(***************************************************************************)
C5_BoundedAndTerminates ==
    /\ [](evalCalls <= Ceiling /\ i <= Ceiling)
    /\ <>Done

C5_Witness ==
    /\ Done
    /\ evalCalls = Ceiling
    /\ i = Ceiling
    /\ gotFinish

(***************************************************************************)
(* C6: the steps come in a fixed order: the model is constructed only      *)
(* after the arguments were handed to the runtime, and every eval call is  *)
(* made on the live instance: after its allocation, before its release.    *)
(***************************************************************************)
C6_Order ==
    [][ /\ (allocs' # allocs => argsDone /\ evalCalls = 0)
        /\ (evalCalls' # evalCalls =>
                /\ tb = "live" /\ tb' = "live"
                /\ allocs = 1 /\ deallocs = 0)
        /\ (deallocs' # deallocs => tb = "live" /\ evalCalls' = evalCalls)
      ]_vars

C6_Witness ==
    /\ Done
    /\ argsDone
    /\ tb = "freed"
    /\ evalCalls = 3

(***************************************************************************)
(* C7: eval is never called in a state where the flag is set; if the flag  *)
(* is set when the loop is entered, main makes no eval call and is done    *)
(* with the model released once and status 0.                              *)
(***************************************************************************)
C7_TestBeforeEval ==
    /\ [][evalCalls' # evalCalls => ~gotFinish]_vars
    /\ [](preSet => evalCalls = 0)
    /\ []((preSet /\ Done) => deallocs = 1 /\ exitStatus = {0})

C7_Witness ==
    /\ Done
    /\ preSet
    /\ evalCalls = 0
    /\ deallocs = 1
    /\ exitStatus = {0}

(***************************************************************************)
(* C8: once main is done, a model whose flag is first raised during step k *)
(* has received min(k, 200000) eval calls.  A k that was reached is        *)
(* recorded in firstRaise; if the flag was never raised, k is any step     *)
(* beyond the calls made (checked for the nearest such k and for one       *)
(* beyond the ceiling).  When k = 200000 the run ends as the never-raised  *)
(* run does: 200000 calls, one release, status 0.                          *)
(***************************************************************************)
C8_MinOfStepAndCeiling ==
    Done =>
        /\ (RaisedInEval /\ ~cleared) => evalCalls = Min(RaisedAt, Ceiling)
        /\ firstRaise = {} =>
              \A k \in {evalCalls + 1, Ceiling + 1} : evalCalls = Min(k, Ceiling)
        /\ firstRaise = {Ceiling} =>
              evalCalls = Ceiling /\ deallocs = 1 /\ exitStatus = {0}

C8_Witness ==
    /\ Done
    /\ firstRaise = {Ceiling}
    /\ gotFinish
    /\ evalCalls = Ceiling
    /\ deallocs = 1
    /\ exitStatus = {0}

(***************************************************************************)
(* C9: the flag changes only in a step that calls into the runtime or the  *)
(* model (commandArgs, the constructor, eval); the loop initialisation,    *)
(* the loop test, the increment, the delete and the return leave it as it  *)
(* is.                                                                     *)
(***************************************************************************)
C9_DriverNeverWritesFlag ==
    [][ /\ (gotFinish' # gotFinish => pc \in {"args", "new", "eval"})
        /\ (pc \in {"for", "test", "inc", "delete", "return"} =>
                gotFinish' = gotFinish)
      ]_vars

C9_Witness ==
    /\ Done
    /\ gotFinish
    /\ firstRaise = {1}
    /\ ~preSet
====
